---- MODULE Spec2Model ----
(***************************************************************************)
(* Suvidhaa API server (src/server.js): an Express application over four   *)
(* MongoDB collections (User, Provider, Booking, Contact) with JWT bearer  *)
(* authentication.                                                         *)
(*                                                                         *)
(* Every route handler is an action, or one action per store round trip    *)
(* when the handler awaits the store more than once: between two awaits of *)
(* one request the event loop runs other requests.  The suspended part of  *)
(* a request lives in procs (its route, its req.userId/req.userRole and    *)
(* the locals it has read so far).                                         *)
(*                                                                         *)
(* Library behaviour the handlers rest on, modelled as the library does    *)
(* it: mongoose applies a path's setters (lowercase) both on save and when *)
(* it casts a query filter; a unique index makes save fail with a          *)
(* duplicate-key error; findByIdAndUpdate runs no validators; bcryptjs     *)
(* rejects with "Illegal arguments" when the data is not a string;         *)
(* jsonwebtoken verifies signature and expiry.                             *)
(***************************************************************************)
EXTENDS Integers, Sequences, FiniteSets, TLC

VARIABLES
    users,      \* User collection: _id = position, <<email, password, role>>
    providers,  \* Provider collection: _id = position
    bookings,   \* Booking collection: _id = position
    contacts,   \* Contact collection (number of documents)
    procs,      \* requests suspended at an await, in arrival order
    resp        \* the response the latest step sent, with the request it answers

vars == <<users, providers, bookings, contacts, procs, resp>>

\* The four collections, as one value.
Stores == <<users, providers, bookings, contacts>>

(***************************************************************************)
(* Bounds of the model.                                                    *)
(***************************************************************************)
\* Requests suspended at an await at one time, in the specifications that let
\* requests overlap.
AuthMaxSuspended == 2
ProvidersMaxSuspended == 2
StatsMaxSuspended == 1
ApiMaxSuspended == 1
\* Documents of the Contact collection.
MaxContacts == 1

(***************************************************************************)
(* JavaScript values of a request body.                                    *)
(***************************************************************************)
Str(s) == [t |-> "string", v |-> s]
Num(s) == [t |-> "number", v |-> s]
Undefined == [t |-> "undefined", v |-> ""]

\* !x is false
Truthy(x) == ~(x.t = "undefined" \/ (x.t = "string" /\ x.v = "") \/ (x.t = "number" /\ x.v = "0"))

\* x.length: defined for strings only; -1 stands for undefined.
JsLength(x) == IF x.t = "string" THEN Len(x.v) ELSE -1

\* x.length < n, false when x.length is undefined (a number has no length).
LengthBelow(x, n) == JsLength(x) >= 0 /\ JsLength(x) < n

\* String.prototype.toLowerCase over the characters the model uses.
LowerChar(c) ==
    CASE c = "A" -> "a"
      [] c = "B" -> "b"
      [] c = "X" -> "x"
      [] OTHER -> c

\* The lowercase setter of userSchema.email; strings are sequences of characters.
toLowerCase(s) == [i \in DOMAIN s |-> LowerChar(s[i])]

\* Minimum password length of signup.
MinPasswordLength == 8

(***************************************************************************)
(* bcryptjs.                                                               *)
(***************************************************************************)
\* bcrypt.hash and bcrypt.compare reject unless the data is a string.
BcryptAccepts(x) == x.t = "string"

\* bcrypt.hash(password, 10): a one-way image of the plaintext.
BcryptHash(x) == [alg |-> "bcrypt", of |-> x.v]

\* bcrypt.compare(password, hash) for string data.
BcryptCompare(x, h) == h.alg = "bcrypt" /\ h.of = x.v

(***************************************************************************)
(* jsonwebtoken and the Authorization header.                              *)
(***************************************************************************)
Roles == {"customer", "provider"}

\* process.env.JWT_SECRET
JWT_SECRET == "server-secret"

\* jwt.sign({id, role}, JWT_SECRET, {expiresIn: '7d'})
JwtSign(id, role) ==
    [wellformed |-> TRUE, key |-> JWT_SECRET, expired |-> FALSE, id |-> id, role |-> role]

\* Tokens the server has signed for the users of the store: the signup token
\* carries role customer, a login token carries the role stored at login.
\* Login is always possible and writes nothing, so a token with the stored
\* role can be presented in any state.
IssuedClaims ==
    {c \in [id : DOMAIN users, role : Roles] :
        c.role = "customer" \/ users[c.id].role = c.role}

\* A token not signed by the server may carry any claims; the model offers
\* the claims of a provider.
ForgedClaims == {[id |-> 1, role |-> "provider"]}

\* What a client can put after "Bearer ", by kind: a token the server issued,
\* fresh ("valid"; "signup" for the signup tokens alone, "login" for the
\* tokens of a login in the current state alone) or a signup token past its
\* seven days ("expired"), a token signed with another key ("forged"), or text that is
\* no JWT ("garbage").
PresentableTokens(kinds) ==
    {[wellformed |-> TRUE, key |-> JWT_SECRET, expired |-> FALSE, id |-> c.id, role |-> c.role] :
        c \in {x \in IssuedClaims :
                 \/ "valid" \in kinds
                 \/ ("signup" \in kinds /\ x.role = "customer")
                 \/ ("login" \in kinds /\ x.role = users[x.id].role)}}
    \cup {[wellformed |-> TRUE, key |-> JWT_SECRET, expired |-> TRUE, id |-> c.id, role |-> c.role] :
        c \in {x \in IssuedClaims : "expired" \in kinds /\ x.role = "customer"}}
    \cup {[wellformed |-> TRUE, key |-> "other-secret", expired |-> FALSE, id |-> c.id, role |-> c.role] :
        c \in {x \in ForgedClaims : "forged" \in kinds}}
    \cup {[wellformed |-> FALSE, key |-> "", expired |-> FALSE, id |-> 0, role |-> ""] :
        x \in {k \in kinds : k = "garbage"}}

\* req.headers['authorization'], as the sequence of its words: no header
\* ("absent"), a scheme without a token ("scheme"), or a scheme and a token.
Headers(kinds) ==
    {<<>> : x \in {k \in kinds : k = "absent"}}
    \cup {<<"Bearer">> : x \in {k \in kinds : k = "scheme"}}
    \cup {<<"Bearer", t>> : t \in PresentableTokens(kinds)}

AllKinds == {"absent", "scheme", "garbage", "forged", "expired", "valid"}

\* req.headers['authorization']?.split(' ')[1]; <<>> stands for undefined.
HeaderToken(h) == IF Len(h) >= 2 THEN <<h[2]>> ELSE <<>>

\* A verification that does not look at the expiry.
JwtVerifiesIgnoringExpiry(t) == t.wellformed /\ t.key = JWT_SECRET

\* jwt.verify(token, JWT_SECRET): err unless well formed, signed with the
\* secret and not expired.
JwtVerifies(t) == t.wellformed /\ t.key = JWT_SECRET /\ ~t.expired

\* verifyToken: the 401 response, or <<>> when next() is called.
verifyToken(h) ==
    IF HeaderToken(h) = <<>> THEN <<[status |-> 401, message |-> "No token provided"]>>
    ELSE IF ~JwtVerifies(HeaderToken(h)[1]) THEN <<[status |-> 401, message |-> "Invalid token"]>>
    ELSE <<>>

\* req.userId and req.userRole as verifyToken sets them.
ReqUserId(h) == HeaderToken(h)[1].id
ReqUserRole(h) == HeaderToken(h)[1].role

(***************************************************************************)
(* Responses.                                                              *)
(***************************************************************************)
\* res.status(status).json({message, ...data}), kept with the request req it
\* answers.
Reply(route, req, status, message, data) ==
    resp' = [route |-> route, req |-> req, status |-> status, message |-> message,
             data |-> data]

NoResponse == [route |-> "", req |-> <<>>, status |-> 0, message |-> "", data |-> <<>>]

\* A step that ends at an await sends nothing: resp holds the response sent by
\* the latest step, if it sent one.
Suspend == resp' = NoResponse

\* The request as the handler behind verifyToken sees it.
Request(h) == [auth |-> h, userId |-> ReqUserId(h), userRole |-> ReqUserRole(h)]

\* The guarded routes answer 401 from verifyToken without running the handler.
Rejected(route, h) ==
    /\ verifyToken(h) # <<>>
    /\ Reply(route, [auth |-> h], verifyToken(h)[1].status, verifyToken(h)[1].message, <<>>)
    /\ UNCHANGED <<users, providers, bookings, contacts, procs>>

(***************************************************************************)
(* User collection.                                                        *)
(***************************************************************************)
\* A findOne that compares the filter as given, without the setter.
FindUserByEmailAsGiven(email) ==
    IF \E i \in DOMAIN users : users[i].email = email
    THEN CHOOSE i \in DOMAIN users : users[i].email = email
    ELSE 0

\* User.findOne({email}): the filter is cast through the lowercase setter.
\* 0 stands for null.
FindUserByEmail(email) ==
    IF \E i \in DOMAIN users : users[i].email = toLowerCase(email)
    THEN CHOOSE i \in DOMAIN users :
            /\ users[i].email = toLowerCase(email)
            /\ \A j \in DOMAIN users : users[j].email = toLowerCase(email) => i <= j
    ELSE 0

\* The gender enum of userSchema.
Genders == {"male", "female", "other"}

\* Document validation of newUser.save().
UserValid(body) == body.gender \in Genders

\* The unique index on email rejects the insert (E11000).
UserDuplicateKey(email) == \E i \in DOMAIN users : users[i].email = toLowerCase(email)

\* new User({...}) as saved: email through the lowercase setter, role default.
NewUser(body) ==
    [email |-> toLowerCase(body.email), password |-> BcryptHash(body.password),
     role |-> "customer"]

EmailA == <<"a", "@", "x">>
EmailAUpper == <<"A", "@", "X">>
EmailB == <<"b", "@", "x">>

GoodPassword == Str("secret123")
OtherPassword == Str("hunter2222")
ShortPassword == Str("short77")
NumberPassword == Num("12345678")

ValidSignup(e) ==
    [fullName |-> "Karthik", email |-> e, phone |-> "98765", gender |-> "male",
     password |-> GoodPassword]

\* Request bodies of POST /api/auth/signup ("" is a missing field).
SignupBodies ==
    {ValidSignup(e) : e \in {EmailA, EmailAUpper, EmailB}}
    \cup {[ValidSignup(EmailA) EXCEPT !.fullName = ""],
          [ValidSignup(EmailB) EXCEPT !.email = <<>>],
          [ValidSignup(EmailA) EXCEPT !.phone = ""],
          [ValidSignup(EmailB) EXCEPT !.gender = ""],
          [ValidSignup(EmailA) EXCEPT !.password = Undefined],
          [ValidSignup(EmailAUpper) EXCEPT !.password = ShortPassword],
          [ValidSignup(EmailB) EXCEPT !.password = ShortPassword],
          [ValidSignup(EmailB) EXCEPT !.password = NumberPassword],
          [ValidSignup(EmailB) EXCEPT !.gender = "robot"]}

SignupMissingField(body) ==
    \/ body.fullName = ""
    \/ body.email = <<>>
    \/ body.phone = ""
    \/ body.gender = ""
    \/ ~Truthy(body.password)

\* procs without its i-th request.
Without(i) == SubSeq(procs, 1, i - 1) \o SubSeq(procs, i + 1, Len(procs))

\* The public projection of a user in the signup and login responses.
PublicUser(id, u) == [id |-> id, email |-> u.email, role |-> u.role]

(***************************************************************************)
(* POST /api/auth/signup                                                   *)
(***************************************************************************)
\* Lines 119-137: validation and the existence check; the request then
\* awaits bcrypt.hash and newUser.save().
SignupCheck(bodies) ==
    \E body \in bodies :
        /\ IF SignupMissingField(body)
           THEN /\ Reply("signup", body, 400, "All fields are required", <<>>)
                /\ UNCHANGED procs
           ELSE IF LengthBelow(body.password, MinPasswordLength)
           THEN /\ Reply("signup", body, 400, "Password must be at least 8 characters", <<>>)
                /\ UNCHANGED procs
           ELSE IF FindUserByEmail(body.email) # 0
           THEN /\ Reply("signup", body, 400, "User already exists with this email", <<>>)
                /\ UNCHANGED procs
           ELSE /\ procs' = Append(procs, [route |-> "signup", pc |-> "save", body |-> body])
                /\ Suspend
        /\ UNCHANGED <<users, providers, bookings, contacts>>

\* Lines 140-173: hash, save, sign; any rejection is the catch's 500.
SignupSave ==
    \E i \in DOMAIN procs :
        /\ procs[i].route = "signup"
        /\ LET body == procs[i].body IN
           IF ~BcryptAccepts(body.password)
           THEN /\ Reply("signup", body, 500, "Server error", "Illegal arguments")
                /\ UNCHANGED users
           ELSE IF ~UserValid(body)
           THEN /\ Reply("signup", body, 500, "Server error", "User validation failed")
                /\ UNCHANGED users
           ELSE IF UserDuplicateKey(body.email)
           THEN /\ Reply("signup", body, 500, "Server error", "E11000 duplicate key error")
                /\ UNCHANGED users
           ELSE /\ users' = Append(users, NewUser(body))
                /\ Reply("signup", body, 201, "User registered successfully",
                         <<JwtSign(Len(users) + 1, "customer"),
                           PublicUser(Len(users) + 1, NewUser(body))>>)
        /\ procs' = Without(i)
        /\ UNCHANGED <<providers, bookings, contacts>>

(***************************************************************************)
(* POST /api/auth/login                                                    *)
(***************************************************************************)
LoginBodies ==
    [email : {EmailA, EmailAUpper, EmailB, <<>>},
     password : {GoodPassword, OtherPassword, NumberPassword, Undefined}]

\* Lines 177-218.  The handler reads the store once, so it is one step.
Login(bodies) ==
    \E body \in bodies :
        /\ IF body.email = <<>> \/ ~Truthy(body.password)
           THEN Reply("login", body, 400, "Email and password are required", <<>>)
           ELSE IF FindUserByEmail(body.email) = 0
           THEN Reply("login", body, 401, "Invalid credentials", <<>>)
           ELSE LET id == FindUserByEmail(body.email) IN
                IF ~BcryptAccepts(body.password)
                THEN Reply("login", body, 500, "Server error", "Illegal arguments")
                ELSE IF ~BcryptCompare(body.password, users[id].password)
                THEN Reply("login", body, 401, "Invalid credentials", <<>>)
                ELSE Reply("login", body, 200, "Login successful",
                           <<JwtSign(id, users[id].role), PublicUser(id, users[id])>>)
        /\ UNCHANGED <<users, providers, bookings, contacts, procs>>

(***************************************************************************)
(* GET /api/auth/me                                                        *)
(***************************************************************************)
\* Lines 221-231.
Me(kinds) ==
    \E h \in Headers(kinds) :
        \/ Rejected("me", h)
        \/ /\ verifyToken(h) = <<>>
           /\ IF ReqUserId(h) \in DOMAIN users
              THEN Reply("me", Request(h),
                         200, "", PublicUser(ReqUserId(h), users[ReqUserId(h)]))
              ELSE Reply("me", Request(h),
                         404, "User not found", <<>>)
           /\ UNCHANGED <<users, providers, bookings, contacts, procs>>

(***************************************************************************)
(* Provider collection.                                                    *)
(***************************************************************************)
\* Provider.findOne({userId}): the first document in natural order, 0 for null.
FindProviderByUser(uid) ==
    IF \E i \in DOMAIN providers : providers[i].userId = uid
    THEN CHOOSE i \in DOMAIN providers :
            /\ providers[i].userId = uid
            /\ \A j \in DOMAIN providers : providers[j].userId = uid => i <= j
    ELSE 0

\* Request bodies of POST /api/providers/register; experience "abc" does not
\* cast to Number, so provider.save() rejects.
RegisterBodies ==
    {[services |-> {"plumbing"}, experience |-> Num("5"), location |-> <<"M", "u", "m", "b", "a", "i">>],
     [services |-> {"plumbing"}, experience |-> Str("abc"), location |-> <<"M", "u", "m", "b", "a", "i">>]}

\* Casting and validation of provider.save().
ProviderValid(body) == body.experience.t = "number"

\* new Provider({userId, services, experience, location, availability}):
\* rating, totalReviews and verified take their schema defaults.
NewProvider(uid, body) ==
    [userId |-> uid, services |-> body.services, location |-> body.location,
     rating |-> 0, verified |-> FALSE]

\* User.findByIdAndUpdate(id, {role: 'provider'})
SetRoleProvider(id) ==
    IF id \in DOMAIN users THEN [users EXCEPT ![id].role = "provider"] ELSE users

\* A write of another request lands while a stats request is suspended.
Touched(ps) ==
    [i \in DOMAIN ps |->
        IF ps[i].route = "stats" THEN [ps[i] EXCEPT !.dirty = TRUE] ELSE ps[i]]

(***************************************************************************)
(* POST /api/providers/register                                            *)
(***************************************************************************)
\* Lines 327-335: verifyToken and the existence check.
RegisterCheck(kinds, bodies) ==
    \E h \in Headers(kinds) :
        \/ Rejected("register", h)
        \/ /\ verifyToken(h) = <<>>
           /\ \E body \in bodies :
                IF FindProviderByUser(ReqUserId(h)) # 0
                THEN /\ Reply("register", Request(h), 400, "Already registered as provider", <<>>)
                     /\ UNCHANGED procs
                ELSE /\ procs' = Append(procs, [route |-> "register", pc |-> "role",
                                                req |-> Request(h), body |-> body])
                     /\ Suspend
           /\ UNCHANGED <<users, providers, bookings, contacts>>

\* Line 338: the role update, before the provider is saved.
RegisterRole ==
    \E i \in DOMAIN procs :
        /\ procs[i].route = "register"
        /\ procs[i].pc = "role"
        /\ users' = SetRoleProvider(procs[i].req.userId)
        /\ procs' = Touched([procs EXCEPT ![i].pc = "save"])
        /\ Suspend
        /\ UNCHANGED <<providers, bookings, contacts>>

\* Lines 340-356: provider.save() and the response.
RegisterSave ==
    \E i \in DOMAIN procs :
        /\ procs[i].route = "register"
        /\ procs[i].pc = "save"
        /\ IF ProviderValid(procs[i].body)
           THEN /\ providers' = Append(providers, NewProvider(procs[i].req.userId, procs[i].body))
                /\ Reply("register", procs[i].req, 201, "Provider registration successful",
                         Len(providers) + 1)
                /\ procs' = Touched(Without(i))
           ELSE /\ Reply("register", procs[i].req, 500, "Server error", "Provider validation failed")
                /\ procs' = Without(i)
                /\ UNCHANGED providers
        /\ UNCHANGED <<users, bookings, contacts>>

(***************************************************************************)
(* GET /api/providers and GET /api/providers/:id                           *)
(***************************************************************************)
\* new RegExp(src, 'i') throws a SyntaxError on an unterminated group.
RECURSIVE OpenGroups(_)
OpenGroups(src) ==
    IF src = <<>> THEN 0
    ELSE OpenGroups(Tail(src)) + (IF Head(src) = "(" THEN 1 ELSE IF Head(src) = ")" THEN -1 ELSE 0)

RegExpCompiles(src) == OpenGroups(src) = 0

\* A pattern of literal characters with flag i matches text when it occurs in
\* it, case ignored.
RegExpTest(src, text) ==
    \E k \in 0..(Len(text) - Len(src)) :
        \A j \in 1..Len(src) : LowerChar(src[j]) = LowerChar(text[k + j])

\* Query strings of GET /api/providers (<<>> and "" are absent parameters).
ProviderQueries ==
    {[service |-> "", location |-> <<>>],
     [service |-> "plumbing", location |-> <<"m", "u", "m">>],
     [service |-> "", location |-> <<"(">>]}

\* Provider.find(query) for query = {verified: true, services?, location?}.
FindProviders(q) ==
    {i \in DOMAIN providers :
        /\ providers[i].verified = TRUE
        /\ (q.service # "" => q.service \in providers[i].services)
        /\ (q.location # <<>> => RegExpTest(q.location, providers[i].location))}

\* Lines 360-380.
ListProviders(queries) ==
    \E q \in queries :
        /\ IF q.location # <<>> /\ ~RegExpCompiles(q.location)
           THEN Reply("providers", q, 500, "Server error", <<>>)
           ELSE Reply("providers", q, 200, "", FindProviders(q))
        /\ UNCHANGED <<users, providers, bookings, contacts, procs>>

\* ObjectIds a client may name in a path.
ObjectIds == 1..3

\* Lines 383-396.
GetProvider(ids) ==
    \E id \in ids :
        /\ IF id \in DOMAIN providers
           THEN Reply("provider", id, 200, "", providers[id])
           ELSE Reply("provider", id, 404, "Provider not found", <<>>)
        /\ UNCHANGED <<users, providers, bookings, contacts, procs>>

(***************************************************************************)
(* Booking collection.                                                     *)
(***************************************************************************)
\* Date.now() in milliseconds is written [hi, lo] for hi * 10^6 + lo, with
\* 0 <= lo < 10^6.
DigitChars == <<"0", "1", "2", "3", "4", "5", "6", "7", "8", "9">>

\* Number.prototype.toString of a non-negative integer.
RECURSIVE ToDecimal(_)
ToDecimal(n) ==
    IF n < 10 THEN <<DigitChars[n + 1]>>
    ELSE Append(ToDecimal(n \div 10), DigitChars[(n % 10) + 1])

\* The digits of lo as the low six digits of a longer number.
RECURSIVE PadLeft(_, _)
PadLeft(s, n) == IF Len(s) >= n THEN s ELSE PadLeft(<<"0">> \o s, n)

\* Date.now().toString()
DateNowToString(t) == ToDecimal(t.hi) \o PadLeft(ToDecimal(t.lo), 6)

\* String.prototype.slice(-n)
SliceLast(s, n) == IF Len(s) <= n THEN s ELSE SubSeq(s, Len(s) - n + 1, Len(s))

\* 'BK' + Date.now().toString().slice(-6)
BookingIdAt(t) == <<"B", "K">> \o SliceLast(DateNowToString(t), 6)

\* Values of Date.now(): two instants 10^6 ms apart and a third one.
Times ==
    {[hi |-> 1793500, lo |-> 999999], [hi |-> 1793501, lo |-> 999999],
     [hi |-> 1793501, lo |-> 42]}

\* Request bodies of POST /api/bookings (providerId 0 is a missing field;
\* no check that the provider exists is made).
BookingBodies ==
    {[providerId |-> 1, service |-> "plumbing", amount |-> 500],
     [providerId |-> 1, service |-> "plumbing", amount |-> 300],
     [providerId |-> 2, service |-> "plumbing", amount |-> 500],
     [providerId |-> 0, service |-> "plumbing", amount |-> 500],
     [providerId |-> 2, service |-> "", amount |-> 300]}

\* Document validation of booking.save(): the required paths.
BookingValid(body) == body.providerId # 0 /\ body.service # ""

\* A bookingId path without the unique index: no insert is rejected.
BookingNoUniqueIndex(bid) == FALSE

\* The unique index on bookingId rejects the insert (E11000).
BookingDuplicateKey(bid) == \E i \in DOMAIN bookings : bookings[i].bookingId = bid

\* new Booking({bookingId, customerId: req.userId, ..., status: 'pending'})
NewBooking(uid, body, t) ==
    [bookingId |-> BookingIdAt(t), customerId |-> uid, providerId |-> body.providerId,
     amount |-> body.amount, status |-> "pending"]

\* Booking.countDocuments(filter) and Booking.find(filter) as sets of _id.
BookingsOfProvider(bs, pid) == {i \in DOMAIN bs : bs[i].providerId = pid}
BookingsOfCustomer(bs, uid) == {i \in DOMAIN bs : bs[i].customerId = uid}
\* A count that drops the status from its filter.
WithAnyStatus(bs, ids, st) == ids

WithStatus(bs, ids, st) == {i \in ids : bs[i].status = st}

\* $group {total: {$sum: '$amount'}} over the documents ids.
RECURSIVE SumAmount(_, _)
SumAmount(bs, ids) ==
    IF ids = {} THEN 0
    ELSE LET i == CHOOSE x \in ids : TRUE IN bs[i].amount + SumAmount(bs, ids \ {i})

(***************************************************************************)
(* POST /api/bookings                                                      *)
(***************************************************************************)
\* Lines 236-265.
CreateBooking(kinds, bodies, times) ==
    \E h \in Headers(kinds) :
        \/ Rejected("createBooking", h)
        \/ /\ verifyToken(h) = <<>>
           /\ \E body \in bodies, t \in times :
                LET req == [auth |-> h, userId |-> ReqUserId(h), userRole |-> ReqUserRole(h),
                            now |-> t]
                IN
                IF ~BookingValid(body)
                THEN /\ Reply("createBooking", req, 500, "Server error", "Booking validation failed")
                     /\ UNCHANGED <<bookings, procs>>
                ELSE IF BookingDuplicateKey(BookingIdAt(t))
                THEN /\ Reply("createBooking", req, 500, "Server error", "E11000 duplicate key error")
                     /\ UNCHANGED <<bookings, procs>>
                ELSE /\ bookings' = Append(bookings, NewBooking(ReqUserId(h), body, t))
                     /\ Reply("createBooking", req, 201, "Booking created successfully",
                              NewBooking(ReqUserId(h), body, t))
                     /\ procs' = Touched(procs)
           /\ UNCHANGED <<users, providers, contacts>>

(***************************************************************************)
(* GET /api/bookings/my-bookings and GET /api/bookings                     *)
(***************************************************************************)
\* Lines 268-278.
MyBookings(kinds) ==
    \E h \in Headers(kinds) :
        \/ Rejected("myBookings", h)
        \/ /\ verifyToken(h) = <<>>
           /\ Reply("myBookings", Request(h),
                    200, "", BookingsOfCustomer(bookings, ReqUserId(h)))
           /\ UNCHANGED <<users, providers, bookings, contacts, procs>>

\* Lines 281-291: verifyToken and, for a provider, Provider.findOne; any
\* other caller gets every document at once (lines 293-298).
ListBookings(kinds) ==
    \E h \in Headers(kinds) :
        \/ Rejected("listBookings", h)
        \/ /\ verifyToken(h) = <<>>
           /\ IF ReqUserRole(h) = "provider"
              THEN /\ procs' = Append(procs, [route |-> "listBookings", pc |-> "find",
                                              req |-> Request(h),
                                              provider |-> FindProviderByUser(ReqUserId(h))])
                   /\ Suspend
              ELSE /\ Reply("listBookings", Request(h), 200, "", DOMAIN bookings)
                   /\ UNCHANGED procs
           /\ UNCHANGED <<users, providers, bookings, contacts>>

\* Lines 288-298: the filter is set only if a Provider was found; Booking.find
\* and the response.
ListBookingsFind ==
    \E i \in DOMAIN procs :
        /\ procs[i].route = "listBookings"
        /\ Reply("listBookings", procs[i].req, 200, "",
                 IF procs[i].provider # 0
                 THEN BookingsOfProvider(bookings, procs[i].provider)
                 ELSE DOMAIN bookings)
        /\ procs' = Without(i)
        /\ UNCHANGED <<users, providers, bookings, contacts>>

(***************************************************************************)
(* PATCH /api/bookings/:id/status                                          *)
(***************************************************************************)
\* Values of body.status; findByIdAndUpdate runs no validators.
PatchStatuses == {"completed", "cancelled"}

\* Lines 305-322.
UpdateBookingStatus(kinds, ids, statuses) ==
    \E h \in Headers(kinds) :
        \/ Rejected("updateStatus", h)
        \/ /\ verifyToken(h) = <<>>
           /\ \E id \in ids, st \in statuses :
                IF id \in DOMAIN bookings
                THEN /\ bookings' = [bookings EXCEPT ![id].status = st]
                     /\ Reply("updateStatus", Request(h), 200, "Booking status updated",
                              [bookings[id] EXCEPT !.status = st])
                     /\ procs' = Touched(procs)
                ELSE /\ Reply("updateStatus", Request(h), 404, "Booking not found", <<>>)
                     /\ UNCHANGED <<bookings, procs>>
           /\ UNCHANGED <<users, providers, contacts>>

(***************************************************************************)
(* POST /api/contact and GET /api/contact                                  *)
(***************************************************************************)
ContactBodies ==
    {[name |-> "K", email |-> "k@x", subject |-> "hi", message |-> "hello"],
     [name |-> "K", email |-> "k@x", subject |-> "", message |-> "hello"]}

\* Lines 401-426.
SubmitContact(bodies) ==
    \E body \in bodies :
        /\ IF body.name = "" \/ body.email = "" \/ body.subject = "" \/ body.message = ""
           THEN /\ Reply("contact", body, 400, "Required fields missing", <<>>)
                /\ UNCHANGED <<contacts, procs>>
           ELSE /\ contacts < MaxContacts
                /\ contacts' = contacts + 1
                /\ Reply("contact", body, 201, "Thank you for contacting us!", <<>>)
                /\ procs' = Touched(procs)
        /\ UNCHANGED <<users, providers, bookings>>

\* Lines 429-436.
ListContacts(kinds) ==
    \E h \in Headers(kinds) :
        \/ Rejected("listContacts", h)
        \/ /\ verifyToken(h) = <<>>
           /\ Reply("listContacts", Request(h),
                    200, "", contacts)
           /\ UNCHANGED <<users, providers, bookings, contacts, procs>>

(***************************************************************************)
(* GET /api/dashboard/stats                                                *)
(***************************************************************************)
\* A scope that is the caller's bookings as customer for every role.
StatsScopeByCustomer(p, bs) == BookingsOfCustomer(bs, p.userId)

\* The documents a stats request counts: those of the Provider it found, or
\* those of the caller as customer.
StatsScope(p, bs) ==
    IF p.userRole = "provider"
    THEN BookingsOfProvider(bs, p.provider)
    ELSE BookingsOfCustomer(bs, p.userId)

\* Lines 441-450: verifyToken and, for a provider, Provider.findOne.
StatsStart(kinds) ==
    \E h \in Headers(kinds) :
        \/ Rejected("stats", h)
        \/ /\ verifyToken(h) = <<>>
           /\ LET p == [route |-> "stats", pc |-> "total", auth |-> h,
                        userId |-> ReqUserId(h), userRole |-> ReqUserRole(h),
                        provider |-> IF ReqUserRole(h) = "provider"
                                     THEN FindProviderByUser(ReqUserId(h)) ELSE 0,
                        totalBookings |-> 0, pendingBookings |-> 0, completedBookings |-> 0,
                        dirty |-> FALSE]
              IN
              IF p.userRole = "provider" /\ p.provider = 0
              THEN /\ Reply("stats", p, 404, "Provider profile not found", <<>>)
                   /\ UNCHANGED procs
              ELSE /\ procs' = Append(procs, p)
                   /\ Suspend
           /\ UNCHANGED <<users, providers, bookings, contacts>>

\* Lines 452 and 475: countDocuments of the scope.
StatsTotal ==
    \E i \in DOMAIN procs :
        /\ procs[i].route = "stats"
        /\ procs[i].pc = "total"
        /\ procs' = [procs EXCEPT ![i].pc = "pending",
                                  ![i].totalBookings = Cardinality(StatsScope(procs[i], bookings))]
        /\ Suspend
        /\ UNCHANGED <<users, providers, bookings, contacts>>

\* Lines 453-456 and 476-484: countDocuments of the pending documents; the
\* customer branch responds here.
StatsPending ==
    \E i \in DOMAIN procs :
        /\ procs[i].route = "stats"
        /\ procs[i].pc = "pending"
        /\ LET n == Cardinality(WithStatus(bookings, StatsScope(procs[i], bookings), "pending")) IN
           IF procs[i].userRole = "provider"
           THEN /\ procs' = [procs EXCEPT ![i].pc = "completed", ![i].pendingBookings = n]
                /\ Suspend
           ELSE /\ Reply("stats", [procs[i] EXCEPT !.pc = "done", !.pendingBookings = n], 200, "",
                         [totalBookings |-> procs[i].totalBookings, pendingBookings |-> n])
                /\ procs' = Without(i)
        /\ UNCHANGED <<users, providers, bookings, contacts>>

\* Lines 457-460: countDocuments of the completed documents.
StatsCompleted ==
    \E i \in DOMAIN procs :
        /\ procs[i].route = "stats"
        /\ procs[i].pc = "completed"
        /\ procs' = [procs EXCEPT ![i].pc = "revenue",
                                  ![i].completedBookings =
                                      Cardinality(WithStatus(bookings, StatsScope(procs[i], bookings), "completed"))]
        /\ Suspend
        /\ UNCHANGED <<users, providers, bookings, contacts>>

\* Lines 462-473 and 487: the $match/$group aggregate and the response.
StatsRevenue ==
    \E i \in DOMAIN procs :
        /\ procs[i].route = "stats"
        /\ procs[i].pc = "revenue"
        /\ Reply("stats", [procs[i] EXCEPT !.pc = "done"], 200, "",
                 [totalBookings |-> procs[i].totalBookings,
                  pendingBookings |-> procs[i].pendingBookings,
                  completedBookings |-> procs[i].completedBookings,
                  totalRevenue |-> SumAmount(bookings, WithStatus(bookings, StatsScope(procs[i], bookings), "completed")),
                  averageRating |-> providers[procs[i].provider].rating])
        /\ procs' = Without(i)
        /\ UNCHANGED <<users, providers, bookings, contacts>>

(***************************************************************************)
(* Specifications.                                                         *)
(***************************************************************************)
Init ==
    /\ users = <<>>
    /\ providers = <<>>
    /\ bookings = <<>>
    /\ contacts = 0
    /\ procs = <<>>
    /\ resp = NoResponse

\* Signup and login, with signups overlapping.
NextAuth ==
    \/ Len(procs) < AuthMaxSuspended /\ SignupCheck(SignupBodies)
    \/ SignupSave
    \/ Login(LoginBodies)
    \/ Me({"absent", "valid"})

SpecAuth == Init /\ [][NextAuth]_vars

(***************************************************************************)
(* Properties of signup and login.                                         *)
(***************************************************************************)
\* Two strings are equal when case is ignored.
SameIgnoringCase(a, b) ==
    /\ Len(a) = Len(b)
    /\ \A k \in 1..Len(a) :
        \/ a[k] = b[k]
        \/ {a[k], b[k]} \in {{"a", "A"}, {"b", "B"}, {"x", "X"}}

\* A signup body the handler must refuse, given the persisted users us.
SignupRefused(body, us) ==
    \/ body.fullName = "" \/ body.email = <<>> \/ body.phone = "" \/ body.gender = ""
    \/ body.password.t = "undefined"
    \/ (body.password.t = "string" /\ Len(body.password.v) < 8)
    \/ \E i \in DOMAIN us : SameIgnoringCase(body.email, us[i].email)

EmailsUnique ==
    \A i, j \in DOMAIN users :
        i # j => ~SameIgnoringCase(users[i].email, users[j].email)

\* A step of the signup handler's validation and existence check (lines
\* 119-137): it either answers or suspends the request before the save.
SignupCheckStep ==
    /\ (Len(procs') > Len(procs) /\ procs'[Len(procs')].route = "signup")
        => ~SignupRefused(procs'[Len(procs')].body, users)
    /\ (resp' # resp /\ resp'.route = "signup" /\ Len(procs') = Len(procs)
            /\ SignupRefused(resp'.req, users))
        => (resp'.status = 400 /\ users' = users)

\* C2: a signup with a missing required field, a password shorter than 8
\* characters, or an email equal, case ignored, to the email of a User
\* persisted when the request is checked, is answered 400 and leaves the User
\* collection unchanged; no two User documents ever have the same email,
\* case ignored.
C2_SignupRefusals ==
    /\ []EmailsUnique
    /\ [](resp.route = "signup" /\ resp.status = 201 => ~SignupRefused(resp.req, <<>>))
    /\ [][SignupCheckStep]_vars

\* A signup with the upper-case spelling of a persisted email was answered 400.
C2_Witness ==
    /\ resp.route = "signup"
    /\ resp.status = 400
    /\ resp.req.email = EmailAUpper
    /\ resp.req.password = GoodPassword
    /\ \E i \in DOMAIN users : users[i].email = EmailA
    /\ Len(users) = 2

\* A login request with a non-empty email and a non-empty password whose
\* email is of no persisted User, or whose password is not the User's.
LoginMustFail(body) ==
    /\ body.email # <<>>
    /\ body.password.t # "undefined"
    /\ \/ \A i \in DOMAIN users : ~SameIgnoringCase(body.email, users[i].email)
       \/ \E i \in DOMAIN users :
            /\ SameIgnoringCase(body.email, users[i].email)
            /\ (body.password.t # "string" \/ users[i].password.of # body.password.v)

\* C3: a login with an unknown email and a login with a known email and a
\* wrong password get the same response, 401 "Invalid credentials", with no
\* token.
C3_UniformLoginFailure ==
    (resp.route = "login" /\ LoginMustFail(resp.req))
        => (resp.status = 401 /\ resp.message = "Invalid credentials" /\ resp.data = <<>>)

(***************************************************************************)
(* The provider directory.                                                 *)
(***************************************************************************)
\* The provider directory, with registrations overlapping.
NextProviders ==
    \/ Len(procs) < ProvidersMaxSuspended /\ SignupCheck({ValidSignup(EmailA), ValidSignup(EmailB)})
    \/ SignupSave
    \/ Len(procs) < ProvidersMaxSuspended /\ RegisterCheck({"absent", "valid"}, RegisterBodies)
    \/ RegisterRole
    \/ RegisterSave
    \/ ListProviders(ProviderQueries)
    \/ GetProvider(ObjectIds)
    \/ CreateBooking({"absent", "valid"}, {b \in BookingBodies : b.amount = 500 /\ b.providerId # 0},
                     {[hi |-> 1793500, lo |-> 999999]})
    \/ Len(procs) < ProvidersMaxSuspended /\ ListBookings({"absent", "valid"})
    \/ ListBookingsFind

SpecProviders == Init /\ [][NextProviders]_vars

\* The Provider documents of user uid.
ProvidersOf(uid) == {i \in DOMAIN providers : providers[i].userId = uid}

\* C4: GET /api/bookings answers a provider-role caller with bookings of the
\* caller's Provider record only, and a customer-role caller with every
\* booking of the collection (stated for the responses sent while no other
\* request is suspended).
C4_ListBookingsScope ==
    (resp.route = "listBookings" /\ resp.status = 200 /\ procs = <<>>)
        => IF resp.req.userRole = "provider"
           THEN \A b \in resp.data : bookings[b].providerId \in ProvidersOf(resp.req.userId)
           ELSE resp.data = DOMAIN bookings

\* C5: at most one Provider document per userId, in every interleaving of
\* register requests.
C5_OneProviderPerUser ==
    \A i, j \in DOMAIN providers : providers[i].userId = providers[j].userId => i = j

\* C6: between requests a User has role provider exactly when a Provider
\* document references that User (the role is changed only by a register
\* request that creates the Provider).
C6_RoleIffProvider ==
    procs = <<>>
        => \A u \in DOMAIN users : (users[u].role = "provider") <=> (ProvidersOf(u) # {})

\* C10: every Provider document has verified = false and GET /api/providers
\* returns the empty list for every service and location filter.
C10_NoProviderListed ==
    /\ \A i \in DOMAIN providers : providers[i].verified = FALSE
    /\ resp.route = "providers" => (resp.status = 200 /\ resp.data = {})

(***************************************************************************)
(* The booking ledger.                                                     *)
(***************************************************************************)
\* Sign-ups one at a time, and the two writers of the Booking store.
NextLedger ==
    \/ procs = <<>> /\ SignupCheck({ValidSignup(EmailA), ValidSignup(EmailB)})
    \/ SignupSave
    \/ CreateBooking({"absent", "signup"}, BookingBodies, Times)
    \/ UpdateBookingStatus({"absent", "signup"}, {1, 2}, PatchStatuses)
    \/ MyBookings({"absent", "signup"})

SpecLedger == Init /\ [][NextLedger]_vars

\* The last six decimal digits of the instant t, most significant first.
LastSixDigits(t) ==
    [k \in 1..6 |->
        <<"0", "1", "2", "3", "4", "5", "6", "7", "8", "9">>[((t.lo \div (10 ^ (6 - k))) % 10) + 1]]

BookingIdsDistinct ==
    \A i, j \in DOMAIN bookings : i # j => bookings[i].bookingId # bookings[j].bookingId

\* A step of POST /api/bookings: what it persists, and what it answers when
\* the bookingId of its instant is taken.
CreateBookingStep ==
    /\ Len(bookings') > Len(bookings) =>
        /\ resp'.route = "createBooking"
        /\ resp'.status = 201
        /\ bookings' = Append(bookings, bookings'[Len(bookings')])
        /\ bookings'[Len(bookings')].status = "pending"
        /\ bookings'[Len(bookings')].customerId = resp'.req.auth[2].id
        /\ bookings'[Len(bookings')].bookingId = <<"B", "K">> \o LastSixDigits(resp'.req.now)
    /\ (/\ resp'.route = "createBooking"
        /\ resp'.status # 401
        /\ \E i \in DOMAIN bookings :
              bookings[i].bookingId = <<"B", "K">> \o LastSixDigits(resp'.req.now))
        => (resp'.status = 500 /\ bookings' = bookings)

\* C7: every booking persisted by POST /api/bookings has status pending, the
\* customerId of the caller's token and bookingId 'BK' followed by the last
\* six decimal digits of the creation time in milliseconds; persisted bookings
\* always have pairwise distinct bookingId, and a create whose bookingId is
\* taken is answered 500 and persists nothing.
C7_BookingCreation ==
    /\ []BookingIdsDistinct
    /\ [][CreateBookingStep]_vars

\* A create 10^6 ms after the creation of a persisted booking was answered
\* 500, next to a booking whose instant has leading zeros in its last digits.
C7_Witness ==
    /\ resp.route = "createBooking"
    /\ resp.status = 500
    /\ resp.data = "E11000 duplicate key error"
    /\ resp.req.now = [hi |-> 1793501, lo |-> 999999]
    /\ Len(bookings) = 2
    /\ bookings[1].bookingId = <<"B", "K", "0", "0", "0", "0", "4", "2">>
    /\ bookings[2].bookingId = <<"B", "K", "9", "9", "9", "9", "9", "9">>

(***************************************************************************)
(* The dashboard with one request served at a time.                        *)
(***************************************************************************)
\* The booking requests of the dashboard specifications.
StatsBookingBodies == {b \in BookingBodies : BookingValid(b)}
StatsTimes == {t \in Times : t.hi = 1793501}

\* A new request arrives only when no request is suspended.
NextSerial ==
    \/ procs = <<>> /\ SignupCheck({ValidSignup(EmailA), ValidSignup(EmailB)})
    \/ SignupSave
    \/ procs = <<>> /\ RegisterCheck({"signup"}, RegisterBodies)
    \/ RegisterRole
    \/ RegisterSave
    \/ procs = <<>> /\ CreateBooking({"signup"}, StatsBookingBodies, StatsTimes)
    \/ procs = <<>> /\ UpdateBookingStatus({"signup"}, {1, 2}, PatchStatuses)
    \/ procs = <<>> /\ StatsStart({"absent", "login"})
    \/ StatsTotal
    \/ StatsPending
    \/ StatsCompleted
    \/ StatsRevenue

SpecSerial == Init /\ [][NextSerial]_vars

\* The sum of amount over the bookings ids; the amounts are 300 and 500.
RevenueOf(ids) ==
    300 * Cardinality({b \in ids : bookings[b].amount = 300})
    + 500 * Cardinality({b \in ids : bookings[b].amount = 500})

\* The figures of Provider p over the Booking store.
ProviderFigures(p) ==
    LET mine == {b \in DOMAIN bookings : bookings[b].providerId = p} IN
    [totalBookings |-> Cardinality(mine),
     pendingBookings |-> Cardinality({b \in mine : bookings[b].status = "pending"}),
     completedBookings |-> Cardinality({b \in mine : bookings[b].status = "completed"}),
     totalRevenue |-> RevenueOf({b \in mine : bookings[b].status = "completed"}),
     averageRating |-> providers[p].rating]

\* The figures of the customer uid over the Booking store.
CustomerFigures(uid) ==
    LET mine == {b \in DOMAIN bookings : bookings[b].customerId = uid} IN
    [totalBookings |-> Cardinality(mine),
     pendingBookings |-> Cardinality({b \in mine : bookings[b].status = "pending"})]

\* C8: GET /api/dashboard/stats for a provider-role caller answers 404 when
\* no Provider references the caller; otherwise, with no other request
\* running during it, it returns the number of bookings of that Provider, the
\* numbers of its pending and completed bookings, the sum of amount over the
\* completed ones and the Provider's stored rating; for any other caller it
\* returns the total and pending counts over the caller's bookings as customer.
C8_StatsValues ==
    (resp.route = "stats" /\ resp.status # 401) =>
        IF resp.req.userRole = "provider"
        THEN IF \A p \in DOMAIN providers : providers[p].userId # resp.req.userId
             THEN resp.status = 404
             ELSE /\ resp.status = 200
                  /\ \E p \in DOMAIN providers :
                        /\ providers[p].userId = resp.req.userId
                        /\ resp.data = ProviderFigures(p)
        ELSE /\ resp.status = 200
             /\ resp.data = CustomerFigures(resp.req.userId)

\* The stats of a provider with one completed booking of amount 500 and one
\* pending booking of amount 300.
C8_Witness ==
    /\ resp.route = "stats"
    /\ resp.status = 200
    /\ resp.req.userRole = "provider"
    /\ resp.data.totalBookings = 2
    /\ resp.data.pendingBookings = 1
    /\ resp.data.completedBookings = 1
    /\ resp.data.totalRevenue = 500
    /\ \E b \in DOMAIN bookings : bookings[b].amount = 300 /\ bookings[b].status = "pending"

(***************************************************************************)
(* The dashboard with booking writes landing between its reads.            *)
(***************************************************************************)
\* One user, who books and later registers as a provider; stats requests
\* overlap with the writers of the Booking store.
NextStats ==
    \/ procs = <<>> /\ SignupCheck({ValidSignup(EmailA)})
    \/ SignupSave
    \/ procs = <<>> /\ RegisterCheck({"signup"}, {b \in RegisterBodies : ProviderValid(b)})
    \/ RegisterRole
    \/ RegisterSave
    \/ CreateBooking({"signup"}, StatsBookingBodies, StatsTimes)
    \/ UpdateBookingStatus({"signup"}, {1, 2}, PatchStatuses)
    \/ Len(procs) < StatsMaxSuspended /\ StatsStart({"absent", "login"})
    \/ StatsTotal
    \/ StatsPending
    \/ StatsCompleted
    \/ StatsRevenue

SpecStats == Init /\ [][NextStats]_vars

\* C9 as stated: every stats response is a consistent snapshot, with
\* pendingBookings + completedBookings <= totalBookings and, when
\* completedBookings = 0, totalRevenue = 0.
C9_ConsistentSnapshot ==
    (resp.route = "stats" /\ resp.status = 200) =>
        IF resp.req.userRole = "provider"
        THEN /\ resp.data.pendingBookings + resp.data.completedBookings <= resp.data.totalBookings
             /\ resp.data.completedBookings = 0 => resp.data.totalRevenue = 0
        ELSE resp.data.pendingBookings <= resp.data.totalBookings

\* C9 (amended): a stats response equals the counts and the sum over the
\* Booking store at one instant when no write of another request landed
\* between its reads; when one did, each returned count is only bounded by the
\* number of bookings persisted when the response is sent.
C9_SnapshotWhenUndisturbed ==
    (resp.route = "stats" /\ resp.status = 200) =>
        /\ ~resp.req.dirty =>
              IF resp.req.userRole = "provider"
              THEN resp.data = ProviderFigures(resp.req.provider)
              ELSE resp.data = CustomerFigures(resp.req.userId)
        /\ resp.data.totalBookings <= Len(bookings)
        /\ resp.data.pendingBookings <= Len(bookings)
        /\ resp.req.userRole = "provider" =>
              /\ resp.data.completedBookings <= Len(bookings)
              /\ resp.data.totalRevenue <= 500 * Len(bookings)

\* A provider's stats response, with writes landed between its reads, whose
\* pending and completed counts exceed its total and whose revenue is
\* positive with no completed booking counted.
C9_Witness ==
    /\ resp.route = "stats"
    /\ resp.status = 200
    /\ resp.req.userRole = "provider"
    /\ resp.req.dirty
    /\ resp.data.pendingBookings + resp.data.completedBookings > resp.data.totalBookings
    /\ resp.data.completedBookings = 0
    /\ resp.data.totalRevenue > 0

(***************************************************************************)
(* The guarded routes, with every kind of Authorization header.            *)
(***************************************************************************)
ApiBookingBodies == {b \in BookingBodies : b.providerId = 1 /\ b.amount = 500}
ApiTimes == {t \in Times : t.lo = 42}

Next ==
    \/ Len(procs) < ApiMaxSuspended /\ SignupCheck({ValidSignup(EmailA)})
    \/ SignupSave
    \/ Me(AllKinds)
    \/ Len(procs) < ApiMaxSuspended /\ RegisterCheck(AllKinds, {b \in RegisterBodies : ProviderValid(b)})
    \/ RegisterRole
    \/ RegisterSave
    \/ CreateBooking(AllKinds, ApiBookingBodies, ApiTimes)
    \/ MyBookings(AllKinds)
    \/ Len(procs) < ApiMaxSuspended /\ ListBookings(AllKinds)
    \/ ListBookingsFind
    \/ UpdateBookingStatus(AllKinds, {1}, {"completed"})
    \/ SubmitContact(ContactBodies)
    \/ ListContacts(AllKinds)
    \/ Len(procs) < ApiMaxSuspended /\ StatsStart((AllKinds \ {"valid"}) \cup {"login"})
    \/ StatsTotal
    \/ StatsPending
    \/ StatsCompleted
    \/ StatsRevenue

Spec == Init /\ [][Next]_vars

\* The routes behind verifyToken.
GuardedRoutes ==
    {"me", "createBooking", "myBookings", "listBookings", "updateStatus", "register",
     "listContacts", "stats"}

\* An Authorization header with no bearer token, or with a token that is
\* malformed, expired or not signed with the server secret.
BadHeader(h) ==
    \/ Len(h) < 2
    \/ ~h[2].wellformed
    \/ h[2].expired
    \/ h[2].key # "server-secret"

\* The request r runs a handler with the claims of the valid token it carries.
RunsWithClaims(r) ==
    /\ ~BadHeader(r.auth)
    /\ r.userId = r.auth[2].id
    /\ r.userRole = r.auth[2].role

\* Every suspended request of a guarded route, and every response of one that
\* is not verifyToken's, belongs to a request with a valid token's claims.
HandlersRunWithClaims ==
    /\ \A i \in DOMAIN procs :
          /\ procs[i].route \in {"register", "listBookings"} => RunsWithClaims(procs[i].req)
          /\ procs[i].route = "stats" => RunsWithClaims(procs[i])
    /\ (resp.route \in GuardedRoutes /\ BadHeader(resp.req.auth)) => resp.status = 401
    /\ (resp.route \in GuardedRoutes /\ resp.status # 401) => RunsWithClaims(resp.req)

\* A step that answers 401 on a guarded route starts no handler and writes to
\* no store.
RejectedStep ==
    (resp'.route \in GuardedRoutes /\ resp'.status = 401) =>
        (Stores' = Stores /\ procs' = procs)

\* C1: on every route guarded by verifyToken a request with no bearer token,
\* or with a malformed, expired or wrongly signed token, is answered 401, its
\* handler never runs and the four stores are unchanged; a handler runs only
\* with userId and role set to the claims of a valid token.
C1_VerifyTokenGuard ==
    /\ []HandlersRunWithClaims
    /\ [][RejectedStep]_vars

\* A booking request with the expired signup token of a registered provider
\* was answered 401 while a booking is persisted.
C1_Witness ==
    /\ resp.route = "createBooking"
    /\ resp.status = 401
    /\ resp.message = "Invalid token"
    /\ Len(resp.req.auth) = 2
    /\ resp.req.auth[2].expired
    /\ resp.req.auth[2].id \in DOMAIN users
    /\ Len(bookings) = 1
    /\ Len(providers) = 1
====
